---- MODULE Spec2Model ----
(***************************************************************************)
(* A model of the CassandraTable derive macro: the table-name derivation   *)
(* (pascal_case_to_snake_case), the TableMeta schema model filled in by    *)
(* the attribute ingestion of impl_cassandra_macro, the statement          *)
(* generators of TableMeta, and the accessors of the generated             *)
(* CassandraTable implementation.                                          *)
(*                                                                         *)
(* Rust Strings are TLA+ strings: \o is concatenation, Len the length and  *)
(* SubSeq(s, i, i) the i-th character.                                     *)
(***************************************************************************)
EXTENDS Integers, Sequences, FiniteSets, TLC

VARIABLES
    pc,          \* position in impl_cassandra_macro / the generated program
    ident,       \* the identifier of the annotated struct (ast.ident)
    table_meta,  \* the TableMeta being built (lib.rs:428-436)
    field,       \* index of the struct field whose attributes are being read
    gen,         \* the artifacts spliced into the generated impl (lib.rs:306-325)
    result,      \* the value returned by the last call of a generated accessor
    word,        \* the input of pascal_case_to_snake_case under test
    derived,     \* the results of its successive applications to word
    registered   \* the key registrations made on table_meta under test, in order

vars == <<pc, ident, table_meta, field, gen, result, word, derived, registered>>

-----------------------------------------------------------------------------
(* Bounds of the model                                                     *)

\* longest identifier handed to pascal_case_to_snake_case, besides the named ones
MaxLen == 3
\* how many times the derivation is re-applied to its own result
MaxApply == 2
\* entries of primary_keys, cluster_keys and static_columns together
MaxEntries == 2
\* registrations made on one TableMeta when the key maps are under test
MaxRegistrations == 3
\* key attributes read, one per field, when their ingestion is under test
MaxAttributes == 2

-----------------------------------------------------------------------------
(* Strings                                                                 *)

CharAt(s, i) == SubSeq(s, i, i)

RECURSIVE Join(_, _)
\* Vec<String>::join(sep)
Join(v, sep) ==
    IF Len(v) = 0 THEN ""
    ELSE IF Len(v) = 1 THEN v[1]
    ELSE v[1] \o sep \o Join(Tail(v), sep)

RECURSIVE Repeat(_, _)
\* str::repeat(n)
Repeat(s, n) == IF n = 0 THEN "" ELSE s \o Repeat(s, n - 1)

\* String::pop: drops the last character, if any
Pop(s) == IF Len(s) = 0 THEN s ELSE SubSeq(s, 1, Len(s) - 1)

\* the positions at which pat occurs in s
Occurrences(s, pat) ==
    {i \in 1..(Len(s) - Len(pat) + 1) : SubSeq(s, i, i + Len(pat) - 1) = pat}

Contains(s, pat) == Occurrences(s, pat) # {}

\* the first position from i on at which pat occurs in s, 0 when there is none
Find(s, pat, i) ==
    LET found == {j \in Occurrences(s, pat) : j >= i}
    IN  IF found = {} THEN 0 ELSE CHOOSE j \in found : \A k \in found : j <= k

RECURSIVE SplitFrom(_, _, _)
SplitFrom(s, sep, start) ==
    LET at == Find(s, sep, start)
    IN  IF at = 0 THEN <<SubSeq(s, start, Len(s))>>
        ELSE <<SubSeq(s, start, at - 1)>> \o SplitFrom(s, sep, at + Len(sep))

\* str::split: the segments between the occurrences of sep
Split(s, sep) == SplitFrom(s, sep, 1)

RECURSIVE ReplaceFrom(_, _, _, _)
ReplaceFrom(s, pat, to, start) ==
    LET at == Find(s, pat, start)
    IN  IF at = 0 THEN SubSeq(s, start, Len(s))
        ELSE SubSeq(s, start, at - 1) \o to \o ReplaceFrom(s, pat, to, at + Len(pat))

\* str::replace: every non-overlapping occurrence, left to right
Replace(s, pat, to) == ReplaceFrom(s, pat, to, 1)

Digits == "0123456789"
UpperCase == "ABCDEFGHIJKLMNOPQRSTUVWXYZ"
LowerCase == "abcdefghijklmnopqrstuvwxyz"

IndexIn(s, c) == CHOOSE i \in 1..Len(s) : CharAt(s, i) = c
IsIn(s, c) == \E i \in 1..Len(s) : CharAt(s, i) = c

\* the ASCII code of a character of an identifier
Byte(c) ==
    IF IsIn(Digits, c) THEN 47 + IndexIn(Digits, c)
    ELSE IF IsIn(UpperCase, c) THEN 64 + IndexIn(UpperCase, c)
    ELSE IF IsIn(LowerCase, c) THEN 96 + IndexIn(LowerCase, c)
    ELSE 95

\* the character of an ASCII code (String::from_utf8 of one byte)
Chr(b) ==
    IF b \in 48..57 THEN CharAt(Digits, b - 47)
    ELSE IF b \in 65..90 THEN CharAt(UpperCase, b - 64)
    ELSE IF b \in 97..122 THEN CharAt(LowerCase, b - 96)
    ELSE "_"

UpperChar(c) == IF IsIn(LowerCase, c) THEN CharAt(UpperCase, IndexIn(LowerCase, c)) ELSE c

RECURSIVE UpperFrom(_, _)
UpperFrom(s, i) ==
    IF i > Len(s) THEN "" ELSE UpperChar(CharAt(s, i)) \o UpperFrom(s, i + 1)

\* str::to_uppercase on ASCII text
to_uppercase(s) == UpperFrom(s, 1)

-----------------------------------------------------------------------------
(* Table-name derivation (lib.rs:870-904)                                  *)

OFFSET == 32
UNDERSCORE == 95

RECURSIVE snake_loop(_, _, _)
\* the while loop of pascal_case_to_snake_case; counter is the 0-based index
snake_loop(table_name, counter, sk_table_name) ==
    IF counter < Len(table_name)
    THEN LET current == Byte(CharAt(table_name, counter + 1))
         IN  IF current < 90
             THEN snake_loop(table_name, counter + 1,
                      sk_table_name \o Chr(UNDERSCORE) \o Chr((current + OFFSET) % 256))
             ELSE snake_loop(table_name, counter + 1, sk_table_name \o Chr(current))
    ELSE sk_table_name

\* a short-circuit that leaves only the empty word alone
pascal_case_short_circuit_off_by_one(table_name) ==
    LET word_size == Len(table_name)
    IN  IF word_size < 1 THEN table_name
        ELSE LET first == Byte(CharAt(table_name, 1))
             IN  snake_loop(table_name, 1,
                     IF first < 90 THEN Chr((first + OFFSET) % 256) ELSE Chr(first))

pascal_case_to_snake_case(table_name) ==
    LET word_size == Len(table_name)
    IN  IF word_size < 2 THEN table_name
        ELSE LET first == Byte(CharAt(table_name, 1))
             IN  snake_loop(table_name, 1,
                     IF first < 90 THEN Chr((first + OFFSET) % 256) ELSE Chr(first))

\* characters the identifiers under test are made of: letters on both sides
\* of the byte threshold, digits and the underscore
Alphabet == {"A", "Z", "b", "z", "7", "_"}

RECURSIVE Words(_)
Words(n) ==
    IF n = 0 THEN {""}
    ELSE Words(n - 1) \cup {w \o c : w \in Words(n - 1), c \in Alphabet}

\* the type names of the unit test and of the documented example
NamedWords == {"Test", "TestHello", "UserAccount"}

TestWords == Words(MaxLen) \cup NamedWords

-----------------------------------------------------------------------------
(* The annotated struct handed to the derive macro                         *)

\* the identifier of the struct (ast.ident)
TypeNames == {"UserAccount"}

\* its named fields, in declaration order
FieldNames == <<"username", "created", "first_name">>

\* literals (syn::Lit) of the annotation values
StrLit(v) == [kind |-> "Str", value |-> v]
IntLit(n) == [kind |-> "Int", value |-> n]

\* a `name = lit` meta item
NameValue(name, lit) == [name |-> name, lit |-> lit]

\* literals of `type = ..` for each field
Types == <<{StrLit("TEXT")}, {StrLit("TIMESTAMP")}, {StrLit("TEXT")}>>

\* literals of `order = ..`
Orders == {StrLit("ASC"), StrLit("DESC"), IntLit(1)}

\* literals of `position = ..` (an integer literal is an i64; 257 does not
\* fit in a u8)
Positions == {IntLit(1), IntLit(2), IntLit(257), StrLit("2")}

\* literals of `keyspace = ..` and `options = ..`
KeySpaces == {StrLit("test")}
TableOptions == {StrLit("comment='x'|gc=1")}

\* the nested lists of `cluster_key(..)` and `compound_key(..)`: each of
\* order and position given once or not at all
KeyArgs ==
    {o \o p : o \in {<<>>} \cup {<<NameValue("order", lit)>> : lit \in Orders},
              p \in {<<>>} \cup {<<NameValue("position", lit)>> : lit \in Positions}}

\* the nested lists of `#[table(..)]`
TableArgs ==
    {k \o o : k \in {<<NameValue("keyspace", lit)>> : lit \in KeySpaces},
              o \in {<<NameValue("options", lit)>> : lit \in TableOptions}}

-----------------------------------------------------------------------------
(* Containers                                                              *)

\* Option<T>
None == <<>>
Some(x) == <<x>>
unwrap_or(opt, default) == IF opt = None THEN default ELSE opt[1]

\* BTreeMap<u8, V>: a function on the set of its keys
BTreeMapNew == <<>>
BTreeInsert(m, k, v) == (k :> v) @@ m

RECURSIVE Ascending(_)
Ascending(S) ==
    IF S = {} THEN <<>>
    ELSE LET least == CHOOSE k \in S : \A j \in S : k <= j
         IN  <<least>> \o Ascending(S \ {least})

\* BTreeMap::values / iter: the values in ascending key order
BTreeValues(m) ==
    LET keys == Ascending(DOMAIN m) IN [i \in 1..Len(keys) |-> m[keys[i]]]

\* HashMap<String, String>: the entries <<key, value>> in the order in which
\* this map instance iterates them; the order is fixed by the map's hasher and
\* is the same for every iteration of the unchanged map
HashMapNew == <<>>
HashKeys(m) == [i \in 1..Len(m) |-> m[i][1]]
HashHas(m, k) == \E i \in 1..Len(m) : m[i][1] = k

\* HashMap::insert: an existing key keeps its slot and gets the new value; a
\* new key lands in the slot its hash gives it
HashInsert(m, k, v, slot) ==
    IF HashHas(m, k)
    THEN [i \in 1..Len(m) |-> IF m[i][1] = k THEN <<k, v>> ELSE m[i]]
    ELSE SubSeq(m, 1, slot - 1) \o <<<<k, v>>>> \o SubSeq(m, slot, Len(m))

SeqContains(v, x) == \E i \in 1..Len(v) : v[i] = x

-----------------------------------------------------------------------------
(* TableMeta (lib.rs:428-716)                                              *)

with_name(name) ==
    [name           |-> name,
     key_space      |-> "",
     table_options  |-> "",
     columns        |-> HashMapNew,
     static_columns |-> <<>>,
     primary_keys   |-> BTreeMapNew,
     cluster_keys   |-> BTreeMapNew]

set_key_space(self, key_space) == [self EXCEPT !.key_space = key_space]

set_table_options(self, table_options) ==
    [self EXCEPT !.table_options = table_options]

new_column(self, name, data_type, slot) ==
    [self EXCEPT !.columns = HashInsert(self.columns, name, data_type, slot)]

set_column_as_static(self, name) ==
    [self EXCEPT !.static_columns = Append(self.static_columns, name)]

\* the key already held at a position kept
new_primary_key_keeping_first(self, key, position) ==
    [self EXCEPT !.primary_keys = self.primary_keys @@ (unwrap_or(position, 1) :> key)]

new_primary_key(self, key, position) ==
    [self EXCEPT !.primary_keys =
        BTreeInsert(self.primary_keys, unwrap_or(position, 1), key)]

new_cluster_key(self, name, order, position) ==
    [self EXCEPT !.cluster_keys =
        BTreeInsert(self.cluster_keys, unwrap_or(position, 1), <<name, order>>)]

key_space(self) == self.key_space

table_name(self) == self.name

\* the names of the primary keys / clustering keys in ascending position
pk_values(self) == BTreeValues(self.primary_keys)
\* the primary keys listed among the clustering keys as well
ck_values_with_primary_keys(self) ==
    BTreeValues(self.primary_keys)
        \o [i \in 1..Len(BTreeValues(self.cluster_keys)) |->
               BTreeValues(self.cluster_keys)[i][1]]

ck_values(self) ==
    LET cks == BTreeValues(self.cluster_keys) IN [i \in 1..Len(cks) |-> cks[i][1]]

\* (format!("{}=?", c), format!("self.{}.clone()", c)) for each c
key_pairs(names) ==
    [i \in 1..Len(names) |-> <<names[i] \o "=?", "self." \o names[i] \o ".clone()">>]

firsts(pairs) == [i \in 1..Len(pairs) |-> pairs[i][1]]
seconds(pairs) == [i \in 1..Len(pairs) |-> pairs[i][2]]

\* the clustering keys put before the primary keys
delete_stmt_cluster_keys_first(self) ==
    LET keys == key_pairs(ck_values(self) \o pk_values(self))
    IN  <<"DELETE FROM " \o self.key_space \o "." \o self.name \o " WHERE "
              \o Join(firsts(keys), " AND "),
          Join(seconds(keys), ",")>>

delete_stmt(self) ==
    LET keys == key_pairs(pk_values(self) \o ck_values(self))
    IN  <<"DELETE FROM " \o self.key_space \o "." \o self.name \o " WHERE "
              \o Join(firsts(keys), " AND "),
          Join(seconds(keys), ",")>>

RECURSIVE updatable_from(_, _)
\* the for loop of update_stmt over self.columns.iter(), from entry i on
updatable_from(self, i) ==
    IF i > Len(self.columns) THEN <<>>
    ELSE LET column_name == self.columns[i][1]
         IN  IF SeqContains(pk_values(self), column_name)
             THEN updatable_from(self, i + 1)
             ELSE IF SeqContains(ck_values(self), column_name)
             THEN updatable_from(self, i + 1)
             ELSE <<column_name>> \o updatable_from(self, i + 1)

\* every declared column assigned, the key columns included
update_stmt_assigning_keys(self) ==
    LET updatable_columns == HashKeys(self.columns)
        update_values == key_pairs(updatable_columns)
        keys == key_pairs(pk_values(self) \o ck_values(self))
        values == Join(seconds(update_values \o keys), ",")
    IN  IF Len(updatable_from(self, 1)) = 0 THEN None
        ELSE Some(<<"UPDATE " \o self.key_space \o "." \o self.name \o " SET "
                        \o Join(firsts(update_values), ",") \o " WHERE "
                        \o Join(firsts(keys), " AND "),
                    values>>)

\* the key bindings put before the bindings of the SET clause
update_stmt_keys_bound_first(self) ==
    LET updatable_columns == updatable_from(self, 1)
        update_values == key_pairs(updatable_columns)
        p_keys == key_pairs(pk_values(self))
        ck_keys == key_pairs(ck_values(self))
        values == Join(seconds(p_keys \o ck_keys \o update_values), ",")
        keys == key_pairs(pk_values(self) \o ck_values(self))
    IN  IF Len(updatable_columns) = 0 THEN None
        ELSE Some(<<"UPDATE " \o self.key_space \o "." \o self.name \o " SET "
                        \o Join(firsts(update_values), ",") \o " WHERE "
                        \o Join(firsts(keys), " AND "),
                    values>>)

update_stmt(self) ==
    LET updatable_columns == updatable_from(self, 1)
        update_values == key_pairs(updatable_columns)
        p_keys == key_pairs(pk_values(self))
        ck_keys == key_pairs(ck_values(self))
        values == Join(seconds(update_values \o p_keys \o ck_keys), ",")
        keys == key_pairs(pk_values(self) \o ck_values(self))
    IN  IF Len(updatable_columns) = 0 THEN None
        ELSE Some(<<"UPDATE " \o self.key_space \o "." \o self.name \o " SET "
                        \o Join(firsts(update_values), ",") \o " WHERE "
                        \o Join(firsts(keys), " AND "),
                    values>>)

\* the last comma of the bind marks left in place
store_stmt_trailing_comma(self) ==
    LET fields == Join(HashKeys(self.columns), ",")
        bind_marks == Repeat("?,", Len(self.columns))
    IN  "INSERT INTO " \o self.key_space \o "." \o self.name \o " (" \o fields
            \o ") VALUES (" \o bind_marks \o ")"

store_stmt(self) ==
    LET fields == Join(HashKeys(self.columns), ",")
        bind_marks == Pop(Repeat("?,", Len(self.columns)))
    IN  "INSERT INTO " \o self.key_space \o "." \o self.name \o " (" \o fields
            \o ") VALUES (" \o bind_marks \o ")"

\* the fields bound in the reverse of the order the columns are listed in
store_values_reversed(self) ==
    LET keys == HashKeys(self.columns)
    IN  Join([i \in 1..Len(keys) |->
                 "self." \o keys[Len(keys) + 1 - i] \o ".clone()"], ",")

store_values(self) ==
    LET keys == HashKeys(self.columns)
    IN  Join([i \in 1..Len(keys) |-> "self." \o keys[i] \o ".clone()"], ",")

\* .map(|v| format!(" {}=? ", v)).collect::<Vec<String>>().join("AND")
\* the terms joined without the space on either side of each
where_part_unpadded(names) == Join([i \in 1..Len(names) |-> names[i] \o "=?"], "AND")

where_part(names) == Join([i \in 1..Len(names) |-> " " \o names[i] \o "=? "], "AND")

\* the WHERE keyword left out when there is no primary key
select_by_key_without_empty_where(self) ==
    IF DOMAIN self.primary_keys = {}
    THEN "SELECT * FROM " \o self.key_space \o "." \o self.name
    ELSE "SELECT * FROM " \o self.key_space \o "." \o self.name \o " WHERE "
             \o where_part(pk_values(self))

select_by_key(self) ==
    "SELECT * FROM " \o self.key_space \o "." \o self.name \o " WHERE "
        \o where_part(pk_values(self))

\* the clustering part appended whether or not there is a clustering key
select_by_keys_always_appending(self) ==
    select_by_key(self) \o " AND " \o where_part(ck_values(self))

select_by_keys(self) ==
    LET pk_select == select_by_key(self)
    IN  IF DOMAIN self.cluster_keys = {} THEN pk_select
        ELSE pk_select \o " AND " \o where_part(ck_values(self))

update_by_key(self) ==
    "UPDATE " \o self.key_space \o "." \o self.name \o " SET :columns WHERE "
        \o where_part(pk_values(self))

update_by_keys(self) ==
    LET pk_select == update_by_key(self)
    IN  IF DOMAIN self.cluster_keys = {} THEN pk_select
        ELSE pk_select \o " AND " \o where_part(ck_values(self))

\* the primary keys taken in descending position
delete_by_key_descending(self) ==
    LET keys == pk_values(self)
    IN  "DELETE FROM " \o self.key_space \o "." \o self.name \o " WHERE "
            \o where_part([i \in 1..Len(keys) |-> keys[Len(keys) + 1 - i]])

delete_by_key(self) ==
    "DELETE FROM " \o self.key_space \o "." \o self.name \o " WHERE "
        \o where_part(pk_values(self))

delete_by_keys(self) ==
    LET pk_select == delete_by_key(self)
    IN  IF DOMAIN self.cluster_keys = {} THEN pk_select
        ELSE pk_select \o " AND " \o where_part(ck_values(self))

drop_table_cql(self) ==
    "DROP TABLE IF EXISTS " \o self.key_space \o "." \o self.name

\* the empty segments kept
opt_parts_keeping_empty(self) == Split(self.table_options, "|")

\* the segments of table_options between `|`, the empty ones dropped
opt_parts(self) ==
    SelectSeq(Split(self.table_options, "|"), LAMBDA opt : opt # "")

\* the column definitions of the DDL (lib.rs:672-682)
ddl_columns(self) ==
    Join([i \in 1..Len(self.columns) |->
             LET k == self.columns[i][1]
                 t == self.columns[i][2]
             IN  IF SeqContains(self.static_columns, k)
                 THEN k \o " " \o t \o " STATIC"
                 ELSE k \o " " \o to_uppercase(t)], ",")

\* the table options of the DDL (lib.rs:684-700)
ddl_table_options(self) ==
    LET cks == BTreeValues(self.cluster_keys)
        c_order == [i \in 1..Len(cks) |-> cks[i][1] \o " " \o cks[i][2]]
        opts == opt_parts(self)
    IN  IF Len(cks) > 0
        THEN LET clustering ==
                     "WITH CLUSTERING ORDER BY (" \o Join(c_order, ",") \o ")"
             IN  IF Len(opts) > 0
                 THEN clustering \o " AND " \o Join(opts, " AND ")
                 ELSE clustering
        ELSE IF Len(opts) > 0 THEN "AND " \o Join(opts, " AND ") ELSE ""

\* the key clause written flat whether or not there are clustering keys
create_table_cql_flat_key_clause(self) ==
    LET columns == ddl_columns(self)
        table_options == ddl_table_options(self)
        primary_keys == Join(pk_values(self) \o ck_values(self), ",")
        create_stmt ==
            "CREATE TABLE IF NOT EXISTS " \o self.key_space \o "." \o self.name \o " "
    IN  create_stmt \o " (" \o columns \o ", PRIMARY KEY (" \o primary_keys
            \o ") ) " \o table_options

create_table_cql(self) ==
    LET columns == ddl_columns(self)
        table_options == ddl_table_options(self)
        c_keys == ck_values(self)
        primary_keys == Join(pk_values(self), ",")
        create_stmt ==
            "CREATE TABLE IF NOT EXISTS " \o self.key_space \o "." \o self.name \o " "
    IN  IF Len(c_keys) > 0
        THEN create_stmt \o " (" \o columns \o ", PRIMARY KEY ((" \o primary_keys
                 \o "), " \o Join(c_keys, ",") \o ") ) " \o table_options
        ELSE create_stmt \o " (" \o columns \o ", PRIMARY KEY (" \o primary_keys
                 \o ") ) " \o table_options

-----------------------------------------------------------------------------
(* Attribute ingestion (lib.rs:260-304, 719-868)                           *)

lit_to_string(lit) == IF lit.kind = "Str" THEN Some(lit.value) ELSE None

lit_to_int(lit) == IF lit.kind = "Int" THEN Some(lit.value) ELSE None

\* what a function that hit a panic! hands back: the expansion is over
Panicked == <<"panic">>

RECURSIVE cluster_properties_from(_, _, _, _)
\* the for loop of extract_cluster_properties, from item i on; the i64
\* position is narrowed with `as u8`
cluster_properties_from(meta_items, i, order, position) ==
    IF i > Len(meta_items) THEN <<order, position>>
    ELSE IF meta_items[i].name = "order"
    THEN cluster_properties_from(meta_items, i + 1,
             unwrap_or(lit_to_string(meta_items[i].lit), "DESC"), position)
    ELSE IF meta_items[i].name = "position"
    THEN cluster_properties_from(meta_items, i + 1, order,
             unwrap_or(lit_to_int(meta_items[i].lit), 1) % 256)
    ELSE Panicked

\* the order defaulting to ASC
extract_cluster_properties_ascending(meta_items) ==
    cluster_properties_from(meta_items, 1, "ASC", 1)

extract_cluster_properties(meta_items) ==
    cluster_properties_from(meta_items, 1, "DESC", 1)

RECURSIVE table_properties_from(_, _, _, _)
\* the for loop of extract_table_properties, from item i on
table_properties_from(meta_items, i, keyspace, options) ==
    IF i > Len(meta_items) THEN <<keyspace, options>>
    ELSE IF meta_items[i].name = "keyspace"
    THEN table_properties_from(meta_items, i + 1,
             unwrap_or(lit_to_string(meta_items[i].lit), ""), options)
    ELSE IF meta_items[i].name = "options"
    THEN table_properties_from(meta_items, i + 1, keyspace,
             unwrap_or(lit_to_string(meta_items[i].lit), ""))
    ELSE Panicked

extract_table_properties(meta_items) ==
    table_properties_from(meta_items, 1, "", "")

NoGen == <<>>
NoResult == [fn |-> "none", arg |-> <<>>, value |-> ""]

Init ==
    /\ pc = "start"
    /\ ident \in TypeNames
    /\ table_meta = with_name("")
    /\ field = 0
    /\ gen = NoGen
    /\ result = NoResult
    /\ word = ""
    /\ derived = <<>>
    /\ registered = <<>>

\* lib.rs:261-263
WithName ==
    /\ pc = "start"
    /\ table_meta' = with_name(pascal_case_to_snake_case(ident))
    /\ pc' = "fields"
    /\ field' = 1
    /\ UNCHANGED <<ident, gen, result, word, derived, registered>>

ReadingField ==
    /\ pc = "fields"
    /\ field \in 1..Len(FieldNames)

\* `type = ".."` (lib.rs:757-759)
ColumnType ==
    /\ ReadingField
    /\ \E lit \in Types[field], slot \in 1..(Len(table_meta.columns) + 1) :
           /\ HashHas(table_meta.columns, FieldNames[field]) => slot = 1
           /\ table_meta' = new_column(table_meta, FieldNames[field],
                                       unwrap_or(lit_to_string(lit), ""), slot)
    /\ UNCHANGED <<pc, ident, field, gen, result, word, derived, registered>>

\* the number of key and static entries of a TableMeta
Entries(self) ==
    Cardinality(DOMAIN self.primary_keys) + Cardinality(DOMAIN self.cluster_keys)
        + Len(self.static_columns)

MarkerRead ==
    /\ Entries(table_meta') <= MaxEntries
    /\ UNCHANGED <<pc, ident, field, gen, result, word, derived, registered>>

\* `primary_key` (lib.rs:745-747)
PrimaryKey ==
    /\ ReadingField
    /\ table_meta' = new_primary_key(table_meta, FieldNames[field], None)
    /\ MarkerRead

\* `static` (lib.rs:748-750)
Static ==
    /\ ReadingField
    /\ table_meta' = set_column_as_static(table_meta, FieldNames[field])
    /\ MarkerRead

\* `cluster_key(order = .., position = ..)` (lib.rs:774-778)
ClusterKey ==
    /\ ReadingField
    /\ \E meta_items \in KeyArgs :
           LET props == extract_cluster_properties(meta_items)
           IN  table_meta' = new_cluster_key(table_meta, FieldNames[field],
                                             props[1], Some(props[2]))
    /\ MarkerRead

\* `compound_key(position = ..)` (lib.rs:779-783)
CompoundKey ==
    /\ ReadingField
    /\ \E meta_items \in KeyArgs :
           LET props == extract_cluster_properties(meta_items)
           IN  table_meta' = new_primary_key(table_meta, FieldNames[field],
                                             Some(props[2]))
    /\ MarkerRead

\* the attributes of this field are read: on to the next field (lib.rs:720)
NextField ==
    /\ pc = "fields"
    /\ field \in 1..Len(FieldNames)
    /\ field' = field + 1
    /\ pc' = IF field = Len(FieldNames) THEN "attrs" ELSE "fields"
    /\ UNCHANGED <<ident, table_meta, gen, result, word, derived, registered>>

\* `#[table(keyspace = "..", options = "..")]` (lib.rs:278-304)
TableAttribute ==
    /\ pc = "attrs"
    /\ \E meta_items \in TableArgs :
           LET props == extract_table_properties(meta_items)
           IN  table_meta' = set_table_options(set_key_space(table_meta, props[1]),
                                               props[2])
    /\ pc' = "generate"
    /\ UNCHANGED <<ident, field, gen, result, word, derived, registered>>

\* the struct carries no `#[table(..)]` attribute
NoTableAttribute ==
    /\ pc = "attrs"
    /\ pc' = "generate"
    /\ UNCHANGED <<ident, table_meta, field, gen, result, word, derived, registered>>

\* the artifacts computed from the finished TableMeta (lib.rs:306-325)
artifacts(self) ==
    LET update == unwrap_or(update_stmt(self), <<"", "">>)
        delete == delete_stmt(self)
    IN  [create_table_sql |-> create_table_cql(self),
         drop_table_sql   |-> drop_table_cql(self),
         key_space        |-> key_space(self),
         table_name       |-> table_name(self),
         select_by_key    |-> select_by_key(self),
         select_by_keys   |-> select_by_keys(self),
         update_by_key    |-> update_by_key(self),
         update_by_keys   |-> update_by_keys(self),
         delete_by_key    |-> delete_by_key(self),
         delete_by_keys   |-> delete_by_keys(self),
         store_stmt       |-> store_stmt(self),
         store_values     |-> store_values(self),
         update_stmt      |-> update[1],
         update_values    |-> update[2],
         delete_stmt      |-> delete[1],
         delete_values    |-> delete[2]]

Generate ==
    /\ pc = "generate"
    /\ gen' = artifacts(table_meta)
    /\ pc' = "generated"
    /\ UNCHANGED <<ident, table_meta, field, result, word, derived, registered>>

-----------------------------------------------------------------------------
(* The generated CassandraTable implementation (lib.rs:333-422)            *)

\* cassandra_macro::Projection
All == [kind |-> "All", c |-> <<>>]
Count == [kind |-> "Count", c |-> <<>>]
Columns(c) == [kind |-> "Columns", c |-> c]

\* the projections the callers pass
Projections ==
    {All, Count, Columns(<<"username", "created">>), Columns(<<"a", "b">>),
     Columns(<<>>)}

\* query_values!(a, b, ..) of the spliced token stream: one bound value per
\* comma-separated expression, in the order written
query_values(tokens) == IF tokens = "" THEN <<>> ELSE Split(tokens, ",")

\* Count written as count(1), whatever the template
project_count_of_one(template, projection) ==
    IF projection.kind = "Count" THEN Replace(template, "*", "count(1) as count")
    ELSE IF projection.kind = "All" THEN template
    ELSE Replace(template, "*", Join(projection.c, ","))

\* the columns joined by a comma and a space
project_columns_spaced(template, projection) ==
    IF projection.kind = "Count" THEN Replace(template, "*", "count(*) as count")
    ELSE IF projection.kind = "All" THEN template
    ELSE Replace(template, "*", Join(projection.c, ", "))

project(template, projection) ==
    IF projection.kind = "Count" THEN Replace(template, "*", "count(*) as count")
    ELSE IF projection.kind = "All" THEN template
    ELSE Replace(template, "*", Join(projection.c, ","))

select_by_primary_keys(g, projection) == project(g.select_by_key, projection)

select_by_primary_and_cluster_keys(g, projection) ==
    project(g.select_by_keys, projection)

store_query(g) ==
    [ok |-> TRUE, query |-> g.store_stmt, values |-> query_values(g.store_values)]

\* the statement returned even when it is empty
update_query_never_failing(g) ==
    [ok |-> TRUE, query |-> g.update_stmt, values |-> query_values(g.update_values)]

update_query(g) ==
    IF g.update_stmt = ""
    THEN [ok |-> FALSE,
          message |-> "Table " \o g.table_name \o " does not have any updatable column"]
    ELSE [ok |-> TRUE, query |-> g.update_stmt,
          values |-> query_values(g.update_values)]

delete_query(g) ==
    [ok |-> TRUE, query |-> g.delete_stmt, values |-> query_values(g.delete_values)]

\* the assignments written without the space in front of each
update_by_primary_keys_unpadded(g, columns) ==
    LET update_columns == Join([i \in 1..Len(columns) |-> columns[i] \o "=?"], ",")
    IN  Replace(g.update_by_key, ":columns", update_columns)

update_by_primary_keys(g, columns) ==
    LET update_columns == Join([i \in 1..Len(columns) |-> " " \o columns[i] \o "=?"], ",")
    IN  Replace(g.update_by_key, ":columns", update_columns)

\* the by-primary-keys template filled in for the by-keys update
update_by_primary_and_cluster_keys_of_by_key(g, columns) ==
    LET update_columns == Join([i \in 1..Len(columns) |-> " " \o columns[i] \o "=?"], ",")
    IN  Replace(g.update_by_key, ":columns", update_columns)

update_by_primary_and_cluster_keys(g, columns) ==
    LET update_columns == Join([i \in 1..Len(columns) |-> " " \o columns[i] \o "=?"], ",")
    IN  Replace(g.update_by_keys, ":columns", update_columns)

delete_by_primary_keys(g) == g.delete_by_key

delete_by_primary_and_cluster_keys(g) == g.delete_by_keys

\* the column lists the callers pass to the generic update
ColumnLists == {<<>>, <<"first_name">>, <<"first_name", "created">>}

\* a call that consumes the columns of the model it reads
Returns_taking_columns(fn, arg, value) ==
    /\ pc = "generated"
    /\ result' = [fn |-> fn, arg |-> arg, value |-> value]
    /\ pc' = "returned"
    /\ table_meta' = [table_meta EXCEPT !.columns = <<>>]
    /\ UNCHANGED <<ident, field, gen, word, derived, registered>>

Returns(fn, arg, value) ==
    /\ pc = "generated"
    /\ result' = [fn |-> fn, arg |-> arg, value |-> value]
    /\ pc' = "returned"
    /\ UNCHANGED <<ident, table_meta, field, gen, word, derived, registered>>

CallStoreQuery == Returns("store_query", <<>>, store_query(gen))

CallUpdateQuery == Returns("update_query", <<>>, update_query(gen))

CallDeleteQuery == Returns("delete_query", <<>>, delete_query(gen))

CallCreateTableCql == Returns("create_table_cql", <<>>, gen.create_table_sql)

CallDropTableCql == Returns("drop_table_cql", <<>>, gen.drop_table_sql)

CallKeySpace == Returns("key_space", <<>>, gen.key_space)

CallTableName == Returns("table_name", <<>>, gen.table_name)

CallSelectByPrimaryKeys ==
    \E projection \in Projections :
        Returns("select_by_primary_keys", projection,
                select_by_primary_keys(gen, projection))

CallSelectByPrimaryAndClusterKeys ==
    \E projection \in Projections :
        Returns("select_by_primary_and_cluster_keys", projection,
                select_by_primary_and_cluster_keys(gen, projection))

CallUpdateByPrimaryKeys ==
    \E columns \in ColumnLists :
        Returns("update_by_primary_keys", columns, update_by_primary_keys(gen, columns))

CallUpdateByPrimaryAndClusterKeys ==
    \E columns \in ColumnLists :
        Returns("update_by_primary_and_cluster_keys", columns,
                update_by_primary_and_cluster_keys(gen, columns))

CallDeleteByPrimaryKeys ==
    Returns("delete_by_primary_keys", <<>>, delete_by_primary_keys(gen))

CallDeleteByPrimaryAndClusterKeys ==
    Returns("delete_by_primary_and_cluster_keys", <<>>,
            delete_by_primary_and_cluster_keys(gen))

\* the caller is done with the returned value
Return ==
    /\ pc = "returned"
    /\ result' = NoResult
    /\ pc' = "generated"
    /\ UNCHANGED <<ident, table_meta, field, gen, word, derived, registered>>

-----------------------------------------------------------------------------
(* Specification of the macro expansion and of the per-instance queries    *)

Next ==
    \/ WithName
    \/ ColumnType
    \/ PrimaryKey
    \/ Static
    \/ ClusterKey
    \/ CompoundKey
    \/ NextField
    \/ TableAttribute
    \/ NoTableAttribute
    \/ Generate
    \/ CallStoreQuery
    \/ CallUpdateQuery
    \/ CallDeleteQuery
    \/ CallSelectByPrimaryAndClusterKeys
    \/ Return

Spec == Init /\ [][Next]_vars

-----------------------------------------------------------------------------
(* Specification of the generated implementation at run time: the program  *)
(* starts with the artifacts of one expanded struct and serves calls        *)

RECURSIVE with_columns(_, _, _)
\* new_column for each <<name, type>> of cols from i on, each key landing
\* behind the ones already there
with_columns(self, cols, i) ==
    IF i > Len(cols) THEN self
    ELSE with_columns(new_column(self, cols[i][1], cols[i][2], Len(self.columns) + 1),
                      cols, i + 1)

RECURSIVE with_primary_keys(_, _, _)
\* new_primary_key for each <<name, position>> of pks from i on
with_primary_keys(self, pks, i) ==
    IF i > Len(pks) THEN self
    ELSE with_primary_keys(new_primary_key(self, pks[i][1], Some(pks[i][2])), pks, i + 1)

RECURSIVE with_cluster_keys(_, _, _)
\* new_cluster_key for each <<name, order, position>> of cks from i on
with_cluster_keys(self, cks, i) ==
    IF i > Len(cks) THEN self
    ELSE with_cluster_keys(new_cluster_key(self, cks[i][1], cks[i][2], Some(cks[i][3])),
                           cks, i + 1)

RECURSIVE with_statics(_, _, _)
\* set_column_as_static for each name of statics from i on
with_statics(self, statics, i) ==
    IF i > Len(statics) THEN self
    ELSE with_statics(set_column_as_static(self, statics[i]), statics, i + 1)

\* the structs expanded before the program runs: what the ingestion
\* registers for each of them
RunColumns ==
    {<<>>,
     <<<<"username", "TEXT">>, <<"created", "TIMESTAMP">>, <<"first_name", "TEXT">>>>,
     <<<<"first_name", "text">>, <<"created", "TIMESTAMP">>, <<"username", "TEXT">>>>,
     <<<<"created", "TIMESTAMP">>, <<"username", "TEXT">>>>}
RunPrimaryKeys ==
    {<<>>, <<<<"username", 1>>>>, <<<<"created", 2>>, <<"username", 1>>>>}
RunClusterKeys ==
    {<<>>, <<<<"created", "ASC", 1>>>>,
     <<<<"first_name", "DESC", 2>>, <<"created", "ASC", 1>>>>}
RunStatics == {<<>>, <<"first_name">>}
RunTypeNames == {"UserAccount", "TestHello"}
RunTables ==
    {<<"", "">>, <<"test", "">>, <<"test", "comment='x'|gc=1">>,
     <<"test", "|a=1||b=2|">>}

RunSchemas(type_name) ==
    {set_table_options(
         set_key_space(
             with_statics(
                 with_cluster_keys(
                     with_primary_keys(
                         with_columns(with_name(pascal_case_to_snake_case(type_name)),
                                      cols, 1),
                         pks, 1),
                     cks, 1),
                 statics, 1),
             table[1]),
         table[2]) :
        cols \in RunColumns, pks \in RunPrimaryKeys,
        cks \in RunClusterKeys, statics \in RunStatics, table \in RunTables}

InitRun ==
    /\ pc = "generated"
    /\ ident \in RunTypeNames
    /\ table_meta \in RunSchemas(ident)
    /\ gen = artifacts(table_meta)
    /\ field = Len(FieldNames) + 1
    /\ result = NoResult
    /\ word = ""
    /\ derived = <<>>
    /\ registered = <<>>

NextRun ==
    \/ CallCreateTableCql
    \/ CallDropTableCql
    \/ CallKeySpace
    \/ CallTableName
    \/ CallSelectByPrimaryKeys
    \/ CallSelectByPrimaryAndClusterKeys
    \/ CallUpdateByPrimaryKeys
    \/ CallUpdateByPrimaryAndClusterKeys
    \/ CallDeleteByPrimaryKeys
    \/ CallDeleteByPrimaryAndClusterKeys
    \/ CallStoreQuery
    \/ CallUpdateQuery
    \/ CallDeleteQuery
    \/ Return

SpecRun == InitRun /\ [][NextRun]_vars

-----------------------------------------------------------------------------
(* Specification of the table-name derivation alone                        *)

InitName ==
    /\ word \in TestWords
    /\ ident = ""
    /\ derived = <<>>
    /\ registered = <<>>
    /\ pc = "derive"
    /\ table_meta = with_name("")
    /\ field = 0
    /\ gen = NoGen
    /\ result = NoResult

\* pascal_case_to_snake_case applied to the word, then to its own result
Derive ==
    /\ pc = "derive"
    /\ Len(derived) < MaxApply
    /\ derived' = Append(derived,
                         pascal_case_to_snake_case(
                             IF derived = <<>> THEN word ELSE derived[Len(derived)]))
    /\ UNCHANGED <<pc, ident, table_meta, field, gen, result, word, registered>>

NextName == Derive

SpecName == InitName /\ [][NextName]_vars

-----------------------------------------------------------------------------
(* Properties of the table-name derivation (under SpecName)                *)

LowerChar(c) ==
    IF IsIn(UpperCase, c) THEN CharAt(LowerCase, IndexIn(UpperCase, c)) ELSE c

RECURSIVE SnakeFrom(_, _)
\* the documented derivation from character i on: an uppercase letter
\* becomes an underscore and its lower-case form, any other character stays
SnakeFrom(w, i) ==
    IF i > Len(w) THEN ""
    ELSE (IF IsIn(UpperCase, CharAt(w, i)) THEN "_" \o LowerChar(CharAt(w, i))
          ELSE CharAt(w, i)) \o SnakeFrom(w, i + 1)

\* the documented derivation: the first character lower-cased without a
\* separator, the rest by SnakeFrom
Documented(w) == LowerChar(CharAt(w, 1)) \o SnakeFrom(w, 2)

Derived(n) == pc = "derive" /\ Len(derived) >= n

IsLowerCase(w) == \A i \in 1..Len(w) : ~IsIn(UpperCase, CharAt(w, i))

\* C7: for every identifier of length >= 2 over letters, digits and
\* underscore the derivation returns the documented snake-case form: first
\* character lower-cased, each later uppercase letter replaced by an
\* underscore and its lower-case form, every other character copied; "Test"
\* gives "test" and "TestHello" gives "test_hello".
C7_DerivationAsDocumented ==
    (Derived(1) /\ Len(word) >= 2) =>
        /\ derived[1] = Documented(word)
        /\ word = "Test" => derived[1] = "test"
        /\ word = "TestHello" => derived[1] = "test_hello"

\* C8: the derivation is stable under re-application, derive(derive(x)) =
\* derive(x) for every identifier x, and an input that is already lower-case
\* is returned unchanged.
C8_DerivationStable ==
    /\ Derived(2) => derived[2] = derived[1]
    /\ (Derived(1) /\ IsLowerCase(word)) => derived[1] = word

\* C9: an input of length 0 or 1 is returned verbatim: the empty string gives
\* the empty string and "A" gives "A".
C9_ShortInputVerbatim ==
    (Derived(1) /\ Len(word) < 2) => derived[1] = word

C9_Witness == Derived(1) /\ word = "A" /\ derived[1] = "A"

-----------------------------------------------------------------------------
(* Reading the generated statements back                                   *)

\* s without its leading and trailing spaces
Trim(s) ==
    LET inked == {i \in 1..Len(s) : CharAt(s, i) # " "}
    IN  IF inked = {} THEN ""
        ELSE SubSeq(s, CHOOSE i \in inked : \A j \in inked : i <= j,
                       CHOOSE i \in inked : \A j \in inked : i >= j)

StartsWith(s, pat) == Len(pat) <= Len(s) /\ SubSeq(s, 1, Len(pat)) = pat

EndsWith(s, pat) ==
    Len(pat) <= Len(s) /\ SubSeq(s, Len(s) - Len(pat) + 1, Len(s)) = pat

\* the comma- or AND-separated items of a list, none for the empty text
Items(text, sep) == IF text = "" THEN <<>> ELSE Split(text, sep)

\* the number of `?` placeholders of a statement
Placeholders(stmt) == Cardinality(Occurrences(stmt, "?"))

\* the column a placeholder at position at is compared with or assigned to:
\* the word before `=?`
ColumnBefore(stmt, at) ==
    LET breaks == {j \in 1..(at - 1) : CharAt(stmt, j) \in {" ", ",", "("}}
        from == IF breaks = {} THEN 1
                ELSE 1 + CHOOSE j \in breaks : \A k \in breaks : j >= k
    IN  SubSeq(stmt, from, at - 2)

\* the columns of the placeholders of a statement, left to right
PlaceholderColumns(stmt) ==
    LET ats == Ascending(Occurrences(stmt, "?"))
    IN  [n \in 1..Len(ats) |-> ColumnBefore(stmt, ats[n])]

\* the binding that extracts a field of the instance
Extracts(f) == "self." \o f \o ".clone()"

\* the text of a statement behind the first occurrence of a keyword
Behind(stmt, keyword) ==
    SubSeq(stmt, Find(stmt, keyword, 1) + Len(keyword), Len(stmt))

\* the text of a statement before the first occurrence of a keyword
Before(stmt, keyword) == SubSeq(stmt, 1, Find(stmt, keyword, 1) - 1)

Returned(fn) == pc = "returned" /\ result.fn = fn

Qualified(self) == self.key_space \o "." \o self.name

ColumnNames(self) == {self.columns[i][1] : i \in 1..Len(self.columns)}
KeyNames(self) ==
    {pk_values(self)[i] : i \in 1..Len(pk_values(self))}
        \cup {ck_values(self)[i] : i \in 1..Len(ck_values(self))}

-----------------------------------------------------------------------------
(* Properties of the per-instance queries (under Spec)                     *)

\* C1: whenever update_query returns a statement, its binding list is as
\* long as the statement has `?` placeholders and the i-th binding extracts
\* the field named by the i-th placeholder, left to right: first the columns
\* of the SET clause in the order written there, then the primary keys in
\* ascending position, then the clustering keys in ascending position.
C1_UpdateBindingsMirrorPlaceholders ==
    (Returned("update_query") /\ result.value.ok) =>
        LET query == result.value.query
            values == result.value.values
            named == PlaceholderColumns(query)
            set == PlaceholderColumns(Before(query, " WHERE "))
        IN  /\ Contains(query, " WHERE ")
            /\ Len(values) = Placeholders(query)
            /\ \A i \in 1..Len(values) : values[i] = Extracts(named[i])
            /\ [i \in 1..Len(values) |-> values[i]] =
                   [i \in 1..Len(values) |->
                       Extracts((set \o pk_values(table_meta)
                                     \o ck_values(table_meta))[i])]
            /\ Len(values) =
                   Len(set) + Len(pk_values(table_meta)) + Len(ck_values(table_meta))

C1_Witness ==
    /\ Returned("update_query")
    /\ result.value.ok
    /\ Len(pk_values(table_meta)) >= 1
    /\ Len(ck_values(table_meta)) >= 1
    /\ Len(result.value.values) >= 3

\* C2: the binding list of store_query has one binding per declared column,
\* in the order in which the INSERT statement lists the column names: the
\* i-th bound value is the field of the i-th listed column.
C2_InsertBindingsFollowColumnList ==
    Returned("store_query") =>
        LET query == result.value.query
            values == result.value.values
            listed == Items(Before(Behind(query, "("), ")"), ",")
        IN  /\ Len(values) = Len(table_meta.columns)
            /\ Len(values) = Len(listed)
            /\ \A i \in 1..Len(values) : values[i] = Extracts(listed[i])

\* the columns are iterated in an order that is not the declaration order
C2_Witness ==
    /\ Returned("store_query")
    /\ Len(result.value.values) = 3
    /\ result.value.values[1] = Extracts("first_name")
    /\ result.value.values[3] = Extracts("created")

\* C3: the insert statement is INSERT INTO <keyspace>.<table> (<cols>)
\* VALUES (<marks>), <cols> naming every declared column exactly once and
\* <marks> holding one `?` per declared column, separated by commas, with no
\* trailing comma.
C3_InsertStatementShape ==
    Returned("store_query") =>
        LET query == result.value.query
            cols == Before(Behind(query, " ("), ") VALUES (")
            marks == Behind(query, ") VALUES (")
            listed == Items(cols, ",")
            n == Len(table_meta.columns)
        IN  /\ query = "INSERT INTO " \o Qualified(table_meta) \o " (" \o cols
                           \o ") VALUES (" \o marks
            /\ Len(listed) = n
            /\ {listed[i] : i \in 1..n} = ColumnNames(table_meta)
            /\ Cardinality(ColumnNames(table_meta)) = n
            /\ EndsWith(marks, ")")
            /\ LET each == Items(Pop(marks), ",")
               IN  Len(each) = n /\ \A i \in 1..n : each[i] = "?"
            /\ Placeholders(query) = n

C3_Witness ==
    /\ Returned("store_query")
    /\ Len(table_meta.columns) = 3
    /\ KeyNames(table_meta) # {}
    /\ table_meta.static_columns # <<>>

\* C4: the per-instance delete is DELETE FROM <keyspace>.<table> WHERE
\* followed by one key=? term per primary key in ascending position and
\* then per clustering key in ascending position, joined by " AND "; its
\* binding list extracts the same keys in the same order and is as long as
\* the statement has placeholders.
C4_DeleteByAllKeys ==
    Returned("delete_query") =>
        LET query == result.value.query
            values == result.value.values
            keys == pk_values(table_meta) \o ck_values(table_meta)
            terms == Items(Behind(query, " WHERE "), " AND ")
        IN  /\ StartsWith(query, "DELETE FROM " \o Qualified(table_meta) \o " WHERE ")
            /\ Len(terms) = Len(keys)
            /\ \A i \in 1..Len(keys) : terms[i] = keys[i] \o "=?"
            /\ Len(values) = Len(keys)
            /\ \A i \in 1..Len(keys) : values[i] = Extracts(keys[i])
            /\ Len(values) = Placeholders(query)

C4_Witness ==
    /\ Returned("delete_query")
    /\ Len(pk_values(table_meta)) = 1
    /\ Len(ck_values(table_meta)) = 1
    /\ Len(result.value.values) = 2

-----------------------------------------------------------------------------
(* Properties of the generic templates and of the DDL                      *)

\* the clustering-key terms a by-keys template carries behind a by-key one
ClusterTerms(by_key, by_keys) ==
    Items(SubSeq(by_keys, Len(by_key) + Len(" AND ") + 1, Len(by_keys)), "AND")

\* by_keys is by_key, ` AND `, and one term c=? per clustering key in
\* ascending position, the terms joined by AND
ExtendsByClusterKeys(by_key, by_keys, self) ==
    LET c == ck_values(self)
        terms == ClusterTerms(by_key, by_keys)
    IN  /\ StartsWith(by_keys, by_key \o " AND ")
        /\ Len(terms) = Len(c)
        /\ \A i \in 1..Len(c) : Trim(terms[i]) = c[i] \o "=?"

\* the relation between the two templates of one family
FamilyRelation(by_key, by_keys, self) ==
    IF DOMAIN self.cluster_keys = {}
    THEN by_keys = by_key
    ELSE ExtendsByClusterKeys(by_key, by_keys, self)

\* C5: in each of the select, update and delete template families, with at
\* least one clustering key the by-primary-and-cluster-keys template is the
\* by-primary-keys template followed by ` AND ` and the terms c1=? .. cm=? of
\* the clustering keys in ascending position joined by AND; with no
\* clustering key the two templates are the same text.
C5_ByKeysExtendsByKey ==
    (pc \in {"generated", "returned"}) =>
        /\ FamilyRelation(gen.select_by_key, gen.select_by_keys, table_meta)
        /\ FamilyRelation(gen.update_by_key, gen.update_by_keys, table_meta)
        /\ FamilyRelation(gen.delete_by_key, gen.delete_by_keys, table_meta)
        /\ (Returned("select_by_primary_and_cluster_keys") /\ result.arg = All) =>
               FamilyRelation(select_by_primary_keys(gen, All), result.value,
                              table_meta)
        /\ Returned("delete_by_primary_and_cluster_keys") =>
               FamilyRelation(delete_by_primary_keys(gen), result.value, table_meta)

C5_Witness ==
    /\ Returned("select_by_primary_and_cluster_keys")
    /\ result.arg = All
    /\ Len(pk_values(table_meta)) = 2
    /\ Len(ck_values(table_meta)) = 2
    /\ result.value # select_by_primary_keys(gen, All)
    /\ Len(ClusterTerms(gen.select_by_key, result.value)) = 2

\* the struct of the documented example: UserAccount in keyspace test with
\* username TEXT as primary key, created TIMESTAMP as clustering key in
\* order ASC, and first_name TEXT
Scenario ==
    /\ ident = "UserAccount"
    /\ table_meta.key_space = "test"
    /\ {table_meta.columns[i] : i \in 1..Len(table_meta.columns)} =
           {<<"username", "TEXT">>, <<"created", "TIMESTAMP">>,
            <<"first_name", "TEXT">>}
    /\ pk_values(table_meta) = <<"username">>
    /\ BTreeValues(table_meta.cluster_keys) = <<<<"created", "ASC">>>>
    /\ table_meta.static_columns = <<>>

\* C6: for the struct UserAccount of the example the table name is
\* user_account, the DDL contains `CREATE TABLE IF NOT EXISTS
\* test.user_account`, `PRIMARY KEY ((username), created)` and `WITH
\* CLUSTERING ORDER BY (created ASC)`, and
\* select_by_primary_and_cluster_keys(All) is exactly `SELECT * FROM
\* test.user_account WHERE  username=?  AND  created=? `, with the doubled
\* spaces and the trailing space.
C6_UserAccountScenario ==
    (Scenario /\ pc \in {"generated", "returned"}) =>
        /\ gen.table_name = "user_account"
        /\ Contains(gen.create_table_sql,
                    "CREATE TABLE IF NOT EXISTS test.user_account")
        /\ Contains(gen.create_table_sql, "PRIMARY KEY ((username), created)")
        /\ Contains(gen.create_table_sql, "WITH CLUSTERING ORDER BY (created ASC)")
        /\ (Returned("select_by_primary_and_cluster_keys") /\ result.arg = All) =>
               result.value =
                   "SELECT * FROM test.user_account WHERE  username=?  AND  created=? "

C6_Witness ==
    /\ Scenario
    /\ Returned("select_by_primary_and_cluster_keys")
    /\ result.arg = All
    /\ Len(table_meta.columns) = 3

\* the key clause of a DDL: from PRIMARY KEY up to the parenthesis that
\* closes it, the one before the ` ) ` that closes the column list
KeyClause(ddl) ==
    LET at == Find(ddl, "PRIMARY KEY", 1)
    IN  SubSeq(ddl, at, Find(ddl, " ) ", at) - 1)

\* C10: the key clause of the DDL lists the primary keys in ascending
\* position: without clustering keys it is PRIMARY KEY (p1,...,pn), with no
\* nested parentheses; with clustering keys it is PRIMARY KEY ((p1,...,pn),
\* c1,...,cm), the clustering keys in ascending position as well.
C10_KeyClauseShape ==
    (pc \in {"generated", "returned"}) =>
        LET p == pk_values(table_meta)
            c == ck_values(table_meta)
            ddl == gen.create_table_sql
        IN  /\ Cardinality(Occurrences(ddl, "PRIMARY KEY")) = 1
            /\ Contains(ddl, " ) ")
            /\ KeyClause(ddl) =
                   IF Len(c) = 0
                   THEN "PRIMARY KEY (" \o Join(p, ",") \o ")"
                   ELSE "PRIMARY KEY ((" \o Join(p, ",") \o "), "
                            \o Join(c, ",") \o ")"
            /\ Returned("create_table_cql") => result.value = ddl

C10_Witness ==
    /\ Returned("create_table_cql")
    /\ pk_values(table_meta) = <<"username", "created">>
    /\ ck_values(table_meta) = <<"created", "first_name">>
    /\ Contains(result.value, "PRIMARY KEY ((username,created), created,first_name)")

\* the free-form options of a schema: the segments of its option string
\* between `|`, the empty ones left out
Options(self) ==
    LET segments == Items(self.table_options, "|")
    IN  SelectSeq(segments, LAMBDA segment : segment # "")

\* the text of a DDL behind the ` ) ` that closes its column list
OptionsFragment(ddl) == Behind(ddl, " ) ")

\* C11: the table-options fragment that ends the DDL is, with clustering
\* keys, WITH CLUSTERING ORDER BY (..) listing every clustering key with its
\* own direction in ascending position, followed by ` AND opt1 AND opt2 ..`
\* when there are options; without clustering keys but with options it is
\* `AND opt1 AND opt2 ..`; with neither it is empty. The options are the
\* non-empty segments of the option string split on `|`.
C11_TableOptionsFragment ==
    (pc \in {"generated", "returned"}) =>
        LET cks == BTreeValues(table_meta.cluster_keys)
            opts == Options(table_meta)
            ordering == "WITH CLUSTERING ORDER BY ("
                            \o Join([i \in 1..Len(cks) |->
                                        cks[i][1] \o " " \o cks[i][2]], ",")
                            \o ")"
            fragment == OptionsFragment(gen.create_table_sql)
        IN  /\ EndsWith(gen.create_table_sql, " ) " \o fragment)
            /\ (Len(cks) > 0 /\ Len(opts) > 0) =>
                   fragment = ordering \o " AND " \o Join(opts, " AND ")
            /\ (Len(cks) > 0 /\ Len(opts) = 0) => fragment = ordering
            /\ (Len(cks) = 0 /\ Len(opts) > 0) =>
                   fragment = "AND " \o Join(opts, " AND ")
            /\ (Len(cks) = 0 /\ Len(opts) = 0) => fragment = ""

C11_Witness ==
    /\ Returned("create_table_cql")
    /\ table_meta.table_options = "|a=1||b=2|"
    /\ EndsWith(result.value,
                "WITH CLUSTERING ORDER BY (created ASC,first_name DESC) AND a=1 AND b=2")

\* the entries of the column-definition list of a DDL: the text between the
\* parenthesis that opens the list and the key clause, split on commas
ColumnDefinitions(ddl) ==
    Items(Before(Behind(ddl, "  ("), ", PRIMARY KEY"), ",")

\* the entry the DDL is documented to carry for a column
DocumentedDefinition(self, column) ==
    column[1] \o " " \o to_uppercase(column[2])
        \o (IF SeqContains(self.static_columns, column[1]) THEN " STATIC" ELSE "")

\* C12: the column-definition list of the DDL holds exactly one
\* comma-separated entry per declared column, `<col> <TYPE>` with the
\* declared type upper-cased for every column, static or not, and ` STATIC`
\* appended exactly for the columns marked static.
C12_ColumnDefinitions ==
    (pc \in {"generated", "returned"}) =>
        LET entries == ColumnDefinitions(gen.create_table_sql)
            columns == table_meta.columns
        IN  /\ Len(entries) = Len(columns)
            /\ \A i \in 1..Len(columns) :
                   entries[i] = DocumentedDefinition(table_meta, columns[i])

-----------------------------------------------------------------------------
(* Properties of the projections and of the generic update                 *)

\* the select template a returned select call was made on
SelectTemplate ==
    IF result.fn = "select_by_primary_keys" THEN gen.select_by_key
    ELSE gen.select_by_keys

\* a select call returned for a projection, its template holding one `*`
Selected(projection) ==
    /\ pc = "returned"
    /\ result.fn \in {"select_by_primary_keys", "select_by_primary_and_cluster_keys"}
    /\ result.arg = projection
    /\ Cardinality(Occurrences(SelectTemplate, "*")) = 1

\* template with its one `*` replaced by text
StarReplaced(template, text) ==
    LET at == Find(template, "*", 1)
    IN  SubSeq(template, 1, at - 1) \o text \o SubSeq(template, at + 1, Len(template))

\* C13 (as amended): on a select template with exactly one `*`, the Count
\* projection of either select returns the template with that `*` replaced
\* by `count(*) as count`: the result holds exactly one occurrence of
\* `count(*) as count`, its only `*` is the one inside that occurrence, and
\* the rest of the template is unchanged.
C13_CountProjection ==
    Selected(Count) =>
        LET counted == Occurrences(result.value, "count(*) as count")
        IN  /\ Cardinality(counted) = 1
            /\ Occurrences(result.value, "*") = {at + Len("count(") : at \in counted}
            /\ result.value = StarReplaced(SelectTemplate, "count(*) as count")

\* C13 (as stated): on a select template with exactly one `*`, the Count
\* projection returns a string with exactly one occurrence of
\* `count(*) as count` and no literal `*`, the rest being unchanged.
C13_CountLeavesNoStar ==
    Selected(Count) =>
        /\ Cardinality(Occurrences(result.value, "count(*) as count")) = 1
        /\ ~Contains(result.value, "*")
        /\ result.value = StarReplaced(SelectTemplate, "count(*) as count")

C13_Witness ==
    /\ Selected(Count)
    /\ result.fn = "select_by_primary_and_cluster_keys"
    /\ result.value =
           "SELECT count(*) as count FROM test.user_account WHERE  username=?  AND  created=? "

\* C14: on a select template with exactly one `*`, the projection All
\* returns the template unchanged and the projection Columns(L) returns the
\* template with that `*` replaced by the elements of L joined by `,`
\* (["a","b"] gives `a,b`), every other character unchanged.
C14_AllAndColumnsProjection ==
    /\ Selected(All) => result.value = SelectTemplate
    /\ \A projection \in Projections :
           (projection.kind = "Columns" /\ Selected(projection)) =>
               result.value = StarReplaced(SelectTemplate, Join(projection.c, ","))
    /\ Selected(Columns(<<"a", "b">>)) =>
           result.value = StarReplaced(SelectTemplate, "a,b")

C14_Witness ==
    /\ Selected(Columns(<<"a", "b">>))
    /\ result.fn = "select_by_primary_keys"
    /\ result.value = "SELECT a,b FROM test.user_account WHERE  username=? "

\* the update template a returned generic update call was made on
UpdateTemplate ==
    IF result.fn = "update_by_primary_keys" THEN gen.update_by_key
    ELSE gen.update_by_keys

\* a generic update call returned
Updated ==
    /\ pc = "returned"
    /\ result.fn \in {"update_by_primary_keys", "update_by_primary_and_cluster_keys"}

\* the assignments of a column list: ` col=?` for each column, in the order
\* of the list, joined by `,`
Assignments(columns) ==
    Join([i \in 1..Len(columns) |-> " " \o columns[i] \o "=?"], ",")

\* C15: update_by_primary_keys(L) and update_by_primary_and_cluster_keys(L)
\* are the template UPDATE <keyspace>.<table> SET :columns WHERE <keys> with
\* :columns replaced by the assignments ` col=?` of the columns of L in the
\* order of L, joined by `,`; the WHERE part is that of the template.
C15_GenericUpdateSubstitution ==
    Updated =>
        LET head == "UPDATE " \o Qualified(table_meta) \o " SET "
            keys == Behind(UpdateTemplate, " WHERE ")
        IN  /\ UpdateTemplate = head \o ":columns" \o " WHERE " \o keys
            /\ result.value = head \o Assignments(result.arg) \o " WHERE " \o keys
            /\ Behind(result.value, " WHERE ") = keys
            /\ Placeholders(Before(result.value, " WHERE ")) = Len(result.arg)

C15_Witness ==
    /\ Updated
    /\ result.arg = <<"first_name", "created">>
    /\ result.value =
           "UPDATE test.user_account SET  first_name=?, created=? WHERE  username=? "

-----------------------------------------------------------------------------
(* Properties of the no-updatable-columns condition                        *)

\* update_query returned the typed TableWithNoUpdatableColumnsError
NoUpdatableColumnsError ==
    /\ Returned("update_query")
    /\ ~result.value.ok
    /\ result.value.message =
           "Table " \o table_meta.name \o " does not have any updatable column"

\* update_query returned an UpdateQuery, its SET clause not empty
UpdateQueryReturned ==
    /\ Returned("update_query")
    /\ result.value.ok
    /\ Placeholders(Before(result.value.query, " WHERE ")) >= 1

\* generation ran to its end and the artifacts other than the per-instance
\* update are what the schema alone determines
OtherArtifactsGenerated ==
    /\ gen # NoGen
    /\ gen.create_table_sql = create_table_cql(table_meta)
    /\ gen.drop_table_sql = drop_table_cql(table_meta)
    /\ gen.select_by_key = select_by_key(table_meta)
    /\ gen.select_by_keys = select_by_keys(table_meta)
    /\ gen.delete_by_key = delete_by_key(table_meta)
    /\ gen.delete_by_keys = delete_by_keys(table_meta)
    /\ gen.delete_stmt = delete_stmt(table_meta)[1]
    /\ gen.store_stmt = store_stmt(table_meta)
    /\ gen.store_values = store_values(table_meta)

-----------------------------------------------------------------------------
(* Determinism of the generation                                           *)

\* the schema of the run over the same description (the same columns
\* registered in the same order, the same keys, keyspace and options) in
\* which the column map iterates in the order of registration
InRegistrationOrder(self) ==
    LET present == SelectSeq(FieldNames, LAMBDA f : HashHas(self.columns, f))
    IN  [self EXCEPT !.columns =
             [i \in 1..Len(present) |->
                 CHOOSE column \in {self.columns[j] : j \in 1..Len(self.columns)} :
                     column[1] = present[i]]]

\* C17: generation is deterministic: two runs over the same schema
\* description produce the same DDL, the same insert statement and the same
\* per-instance update statement, the order of the emitted columns included.
\* The two runs compared are the one that reached this state and the one
\* over the same description whose column map iterates in registration
\* order.
C17_GenerationDeterministic ==
    (pc \in {"generated", "returned"}) =>
        LET other == artifacts(InRegistrationOrder(table_meta))
        IN  /\ gen.create_table_sql = other.create_table_sql
            /\ gen.store_stmt = other.store_stmt
            /\ gen.update_stmt = other.update_stmt

-----------------------------------------------------------------------------
(* Properties of the WHERE clauses and of the key maps                     *)

\* the WHERE clause of a statement: the text behind ` WHERE `
WhereClause(stmt) == Behind(stmt, " WHERE ")

\* the keys of a key map in ascending position, from the map itself
InPositionOrder(keys) ==
    LET positions == Ascending(DOMAIN keys)
    IN  [i \in 1..Len(positions) |-> keys[positions[i]]]

\* C18: the by-primary-keys templates of select, update and delete carry the
\* same WHERE clause: one term ` pk=? ` for each primary key of the schema,
\* in ascending declared position whatever the order of registration,
\* joined by `AND`; no clustering key and no other column appears in it.
C18_ByPrimaryKeysWhereClause ==
    (pc \in {"generated", "returned"}) =>
        LET pks == InPositionOrder(table_meta.primary_keys)
            clause == WhereClause(gen.select_by_key)
        IN  /\ clause = Join([i \in 1..Len(pks) |-> " " \o pks[i] \o "=? "], "AND")
            /\ WhereClause(gen.update_by_key) = clause
            /\ WhereClause(gen.delete_by_key) = clause
            /\ PlaceholderColumns(clause) = pks
            /\ \A column \in (ColumnNames(table_meta) \cup KeyNames(table_meta))
                                \ {pks[i] : i \in 1..Len(pks)} :
                   ~Contains(clause, column \o "=?")

\* username, read first, is registered at position 2 and created, read
\* second, at position 1
C18_Witness ==
    /\ pc = "generated"
    /\ table_meta.primary_keys = (1 :> "created") @@ (2 :> "username")
    /\ Len(table_meta.columns) = 3
    /\ WhereClause(gen.delete_by_key) = " created=? AND username=? "

\* the declared columns that are neither a primary key nor a clustering key
Updatable(self) == ColumnNames(self) \ KeyNames(self)

\* C19: for a schema with at least one updatable column, the SET clause of
\* the per-instance update assigns exactly the declared columns that are
\* neither a primary key nor a clustering key, each exactly once as col=?,
\* and the WHERE clause holds every primary key and then every clustering
\* key, in ascending position, joined by ` AND `.
C19_UpdateSetsNonKeyColumns ==
    (Returned("update_query") /\ Updatable(table_meta) # {}) =>
        /\ result.value.ok
        /\ LET query == result.value.query
               head == "UPDATE " \o Qualified(table_meta) \o " SET "
               set == Items(Before(Behind(query, " SET "), " WHERE "), ",")
               where == Items(WhereClause(query), " AND ")
               pks == InPositionOrder(table_meta.primary_keys)
               cks == InPositionOrder(table_meta.cluster_keys)
               keys == pks \o [i \in 1..Len(cks) |-> cks[i][1]]
           IN  /\ StartsWith(query, head)
               /\ Len(set) = Cardinality(Updatable(table_meta))
               /\ {set[i] : i \in 1..Len(set)} =
                      {column \o "=?" : column \in Updatable(table_meta)}
               /\ where = [i \in 1..Len(keys) |-> keys[i] \o "=?"]

C19_Witness ==
    /\ Returned("update_query")
    /\ result.value.ok
    /\ Updatable(table_meta) = {"first_name"}
    /\ result.value.query =
           "UPDATE test.user_account SET first_name=? WHERE username=? AND created=?"

-----------------------------------------------------------------------------
(* Specification of the key maps alone: sequences of registrations on one  *)
(* TableMeta                                                               *)

\* the fields registered as keys, the positions and the orders given
RegisteredFields == {"username", "created"}
RegisteredPositions == {None, Some(1), Some(2)}
RegisteredOrders == {"ASC", "DESC"}

InitKeys ==
    /\ pc = "register"
    /\ ident = "UserAccount"
    /\ table_meta = with_name(pascal_case_to_snake_case(ident))
    /\ field = 0
    /\ gen = NoGen
    /\ result = NoResult
    /\ word = ""
    /\ derived = <<>>
    /\ registered = <<>>

\* lib.rs:647-649
RegisterPrimaryKey ==
    /\ pc = "register"
    /\ Len(registered) < MaxRegistrations
    /\ \E key \in RegisteredFields, position \in RegisteredPositions :
           /\ table_meta' = new_primary_key(table_meta, key, position)
           /\ registered' = Append(registered,
                                   [map |-> "primary_keys", position |-> position,
                                    entry |-> key])
    /\ UNCHANGED <<pc, ident, field, gen, result, word, derived>>

\* lib.rs:651-653
RegisterClusterKey ==
    /\ pc = "register"
    /\ Len(registered) < MaxRegistrations
    /\ \E name \in RegisteredFields, order \in RegisteredOrders,
          position \in RegisteredPositions :
           /\ table_meta' = new_cluster_key(table_meta, name, order, position)
           /\ registered' = Append(registered,
                                   [map |-> "cluster_keys", position |-> position,
                                    entry |-> <<name, order>>])
    /\ UNCHANGED <<pc, ident, field, gen, result, word, derived>>

NextKeys ==
    \/ RegisterPrimaryKey
    \/ RegisterClusterKey

SpecKeys == InitKeys /\ [][NextKeys]_vars

\* the position a registration is made at: 1 when none is given
PositionOf(registration) ==
    IF registration.position = None THEN 1 ELSE registration.position[1]

\* the registrations made on a map at a position, as indexes of the log
RegistrationsAt(map, position) ==
    {i \in 1..Len(registered) :
        registered[i].map = map /\ PositionOf(registered[i]) = position}

\* the positions at which a map was registered to
PositionsOf(map) ==
    {PositionOf(registered[i]) : i \in {j \in 1..Len(registered) : registered[j].map = map}}

\* the entry of the last registration made on a map at a position
LastAt(map, position) ==
    LET made == RegistrationsAt(map, position)
    IN  registered[CHOOSE i \in made : \A j \in made : i >= j].entry

\* a key map holds one entry for each position registered to, that of the
\* last registration made there
LastRegistrationWins(map, held) ==
    /\ DOMAIN held = PositionsOf(map)
    /\ \A position \in DOMAIN held : held[position] = LastAt(map, position)

\* the keys the statements are to name: the last registered at each
\* position, the primary keys and then the clustering keys, by position
KeysHeld ==
    LET pks == Ascending(PositionsOf("primary_keys"))
        cks == Ascending(PositionsOf("cluster_keys"))
    IN  [i \in 1..Len(pks) |-> LastAt("primary_keys", pks[i])]
            \o [i \in 1..Len(cks) |-> LastAt("cluster_keys", cks[i])[1]]

\* C20: after any sequence of new_primary_key and new_cluster_key
\* registrations each key map holds at most one entry per position, ordered
\* by position, the entry at a position being that of the last registration
\* made there; an earlier key at the same position is in no generated
\* statement, and the registrations at other positions are unaffected.
C20_LastRegistrationWins ==
    (pc = "register") =>
        /\ LastRegistrationWins("primary_keys", table_meta.primary_keys)
        /\ LastRegistrationWins("cluster_keys", table_meta.cluster_keys)
        /\ Items(WhereClause(delete_stmt(table_meta)[1]), " AND ") =
               [i \in 1..Len(KeysHeld) |-> KeysHeld[i] \o "=?"]
        /\ PlaceholderColumns(WhereClause(select_by_keys(table_meta))) = KeysHeld

\* username and then created registered as primary keys at position 1, and
\* a clustering key at position 2
C20_Witness ==
    /\ pc = "register"
    /\ Len(registered) = 3
    /\ registered[1] = [map |-> "primary_keys", position |-> None, entry |-> "username"]
    /\ registered[2] = [map |-> "primary_keys", position |-> Some(1), entry |-> "created"]
    /\ registered[3].map = "cluster_keys"
    /\ PositionOf(registered[3]) = 2
    /\ table_meta.primary_keys = (1 :> "created")

-----------------------------------------------------------------------------
(* Specification of the ingestion of the key attributes alone: one key      *)
(* attribute on each field, in the order of the fields, the attributes read *)
(* kept in registered                                                       *)

InitAttr ==
    /\ pc = "attribute"
    /\ ident = "UserAccount"
    /\ table_meta = with_name(pascal_case_to_snake_case(ident))
    /\ field = 1
    /\ gen = NoGen
    /\ result = NoResult
    /\ word = ""
    /\ derived = <<>>
    /\ registered = <<>>

\* no TableMeta: the one under construction is dropped when a panic unwinds
NoModel == <<>>

\* the markers and the argument lists the ingestion does not know
UnknownMarkers == {"partition_key"}
UnknownArgs == {<<NameValue("sort", StrLit("ASC"))>>}
\* the `type` values of a field: the declared string, or an integer
AttrTypes == {StrLit("TEXT"), IntLit(5)}

\* the next field carries an attribute
ReadingAttribute ==
    /\ pc = "attribute"
    /\ field <= MaxAttributes
    /\ field <= Len(FieldNames)
    /\ field' = field + 1
    /\ UNCHANGED <<ident, gen, result, word, derived>>

\* the attribute is ingested and the model is now meta, or the ingestion
\* panicked and the expansion is over with no model
Ingested(attribute, meta_items, panicked, meta) ==
    /\ registered' = Append(registered,
                            [attribute |-> attribute, meta_items |-> meta_items])
    /\ IF panicked
       THEN pc' = "aborted" /\ table_meta' = NoModel
       ELSE pc' = (IF attribute = "table" THEN "ingested" ELSE pc)
                /\ table_meta' = meta

\* `primary_key` (lib.rs:745-747)
ReadPrimaryKey ==
    /\ ReadingAttribute
    /\ Ingested("primary_key", <<>>, FALSE,
                new_primary_key(table_meta, FieldNames[field], None))

\* a marker that is neither `primary_key` nor `static` (lib.rs:751)
ReadUnknownMarker ==
    /\ ReadingAttribute
    /\ \E marker \in UnknownMarkers : Ingested(marker, <<>>, TRUE, NoModel)

\* `type = ..` (lib.rs:757-759)
ReadType ==
    /\ ReadingAttribute
    /\ \E lit \in AttrTypes :
           Ingested("type", <<NameValue("type", lit)>>, FALSE,
                    new_column(table_meta, FieldNames[field],
                               unwrap_or(lit_to_string(lit), ""),
                               Len(table_meta.columns) + 1))

\* `cluster_key(order = .., position = ..)` (lib.rs:774-778)
ReadClusterKey ==
    /\ ReadingAttribute
    /\ \E meta_items \in KeyArgs \cup UnknownArgs :
           LET props == extract_cluster_properties(meta_items)
           IN  Ingested("cluster_key", meta_items, props = Panicked,
                        IF props = Panicked THEN NoModel
                        ELSE new_cluster_key(table_meta, FieldNames[field],
                                             props[1], Some(props[2])))

\* `compound_key(position = ..)` (lib.rs:779-783)
ReadCompoundKey ==
    /\ ReadingAttribute
    /\ \E meta_items \in KeyArgs \cup UnknownArgs :
           LET props == extract_cluster_properties(meta_items)
           IN  Ingested("compound_key", meta_items, props = Panicked,
                        IF props = Panicked THEN NoModel
                        ELSE new_primary_key(table_meta, FieldNames[field],
                                             Some(props[2])))

\* the nested lists of `#[table(..)]` read here: the documented one, a
\* keyspace or options that is no string, an argument that is not known
AttrTableArgs ==
    TableArgs \cup {<<NameValue("keyspace", IntLit(5))>>,
                    <<NameValue("keyspace", StrLit("test")),
                      NameValue("options", IntLit(5))>>,
                    <<NameValue("replication", StrLit("x"))>>}

\* `#[table(..)]`, read when the fields read are done (lib.rs:278-304)
ReadTable ==
    /\ pc = "attribute"
    /\ \E meta_items \in AttrTableArgs :
           LET props == extract_table_properties(meta_items)
           IN  Ingested("table", meta_items, props = Panicked,
                        IF props = Panicked THEN NoModel
                        ELSE set_table_options(set_key_space(table_meta, props[1]),
                                               props[2]))
    /\ UNCHANGED <<ident, field, gen, result, word, derived>>

NextAttr ==
    \/ ReadPrimaryKey
    \/ ReadUnknownMarker
    \/ ReadType
    \/ ReadClusterKey
    \/ ReadCompoundKey
    \/ ReadTable

SpecAttr == InitAttr /\ [][NextAttr]_vars

\* the literals an attribute gives for an argument
Given(attribute, name) ==
    {attribute.meta_items[i].lit :
        i \in {j \in 1..Len(attribute.meta_items) : attribute.meta_items[j].name = name}}

\* the attribute read last and the field that carries it
LastRead == registered[Len(registered)]
LastField == FieldNames[Len(registered)]

\* the order an attribute asks for: DESC unless a string is given
OrderAsked(attribute) ==
    IF Given(attribute, "order") = {} THEN "DESC"
    ELSE (CHOOSE lit \in Given(attribute, "order") : TRUE).value

\* the position an attribute asks for: 1 unless an integer is given
PositionAsked(attribute) ==
    IF Given(attribute, "position") = {} THEN 1
    ELSE (CHOOSE lit \in Given(attribute, "position") : TRUE).value

\* the arguments of an attribute are of the documented kinds: a string for
\* order, an integer that a position of the model can hold for position
WellFormed(attribute) ==
    /\ \A lit \in Given(attribute, "order") : lit.kind = "Str"
    /\ \A lit \in Given(attribute, "position") :
           lit.kind = "Int" /\ lit.value \in 0..255

\* C21: a primary key registered without a position is stored at position
\* 1; a clustering key registered without an order has direction DESC and
\* one registered without a position is stored at position 1; an order or a
\* position that is given replaces its own default only.
C21_KeyRegistrationDefaults ==
    (pc = "attribute" /\ registered # <<>> /\ WellFormed(LastRead)) =>
        /\ LastRead.attribute = "primary_key" =>
               /\ 1 \in DOMAIN table_meta.primary_keys
               /\ table_meta.primary_keys[1] = LastField
        /\ LastRead.attribute = "compound_key" =>
               /\ PositionAsked(LastRead) \in DOMAIN table_meta.primary_keys
               /\ table_meta.primary_keys[PositionAsked(LastRead)] = LastField
        /\ LastRead.attribute = "cluster_key" =>
               /\ PositionAsked(LastRead) \in DOMAIN table_meta.cluster_keys
               /\ table_meta.cluster_keys[PositionAsked(LastRead)] =
                      <<LastField, OrderAsked(LastRead)>>

\* a clustering key with a position and no order, after one with an order
\* and no position
C21_Witness ==
    /\ pc = "attribute"
    /\ Len(registered) = 2
    /\ registered[1] = [attribute |-> "cluster_key",
                        meta_items |-> <<NameValue("order", StrLit("ASC"))>>]
    /\ registered[2] = [attribute |-> "cluster_key",
                        meta_items |-> <<NameValue("position", IntLit(2))>>]
    /\ table_meta.cluster_keys =
           (1 :> <<"username", "ASC">>) @@ (2 :> <<"created", "DESC">>)

\* the names an attribute may carry
KnownAttributes ==
    {"primary_key", "static", "type", "cluster_key", "compound_key", "table"}

\* the arguments each attribute knows
KnownArguments(attribute) ==
    IF attribute = "table" THEN {"keyspace", "options"}
    ELSE IF attribute = "type" THEN {"type"}
    ELSE {"order", "position"}

\* an attribute is malformed: an unknown annotation key, or a value of the
\* wrong type (a non-string type, keyspace, options or order, a non-integer
\* position)
Malformed(attribute) ==
    \/ attribute.attribute \notin KnownAttributes
    \/ \E i \in 1..Len(attribute.meta_items) :
           attribute.meta_items[i].name \notin KnownArguments(attribute.attribute)
    \/ \E name \in {"type", "keyspace", "options", "order"} :
           \E lit \in Given(attribute, name) : lit.kind # "Str"
    \/ \E lit \in Given(attribute, "position") : lit.kind # "Int"

\* C22: schema construction aborts at once, with no model and no generated
\* artifact, for every malformed attribute: an unknown annotation key or a
\* value of the wrong type (a non-string type, keyspace, options or order,
\* a non-integer position); none yields a partial or defaulted model.
C22_MalformedAttributeAborts ==
    (\E i \in 1..Len(registered) : Malformed(registered[i])) =>
        (pc = "aborted" /\ table_meta = NoModel /\ gen = NoGen)

\* a schema with no primary key registered, its artifacts generated
NoPrimaryKey ==
    /\ pc \in {"generated", "returned"}
    /\ DOMAIN table_meta.primary_keys = {}

\* C23 as stated: for a schema with no primary key registered, the DDL has
\* an empty PRIMARY KEY () clause and each select, update and delete
\* template has an empty WHERE condition.
C23_EmptyKeyClauseAndWhere ==
    NoPrimaryKey =>
        /\ Contains(gen.create_table_sql, "PRIMARY KEY ()")
        /\ \A stmt \in {gen.select_by_key, gen.select_by_keys,
                        gen.update_by_key, gen.update_by_keys,
                        gen.delete_by_key, gen.delete_by_keys} :
               WhereClause(stmt) = ""

\* C23: for a schema with no primary key registered no generator operation
\* fails. The DDL has the key clause PRIMARY KEY () when there is no
\* clustering key and PRIMARY KEY ((), c1,...,cm) when there are some; the
\* by-primary-keys templates of select, update and delete end with WHERE and
\* an empty condition; the by-primary-and-clustering-keys templates do the
\* same when there is no clustering key, and otherwise carry the condition
\* ` AND ` followed by the clustering terms; the calls return these
\* statements.
C23_NoPrimaryKeyTemplates ==
    NoPrimaryKey =>
        LET c == ck_values(table_meta)
            terms == Join([i \in 1..Len(c) |-> " " \o c[i] \o "=? "], "AND")
            rest == IF Len(c) = 0 THEN "" ELSE " AND " \o terms
            select == "SELECT * FROM " \o Qualified(table_meta) \o " WHERE "
            update == "UPDATE " \o Qualified(table_meta) \o " SET :columns WHERE "
            delete == "DELETE FROM " \o Qualified(table_meta) \o " WHERE "
        IN  /\ KeyClause(gen.create_table_sql) =
                   IF Len(c) = 0 THEN "PRIMARY KEY ()"
                   ELSE "PRIMARY KEY ((), " \o Join(c, ",") \o ")"
            /\ gen.select_by_key = select
            /\ gen.update_by_key = update
            /\ gen.delete_by_key = delete
            /\ gen.select_by_keys = select \o rest
            /\ gen.update_by_keys = update \o rest
            /\ gen.delete_by_keys = delete \o rest
            /\ Returned("create_table_cql") => result.value = gen.create_table_sql
            /\ (Returned("select_by_primary_keys") /\ result.arg = All) =>
                   result.value = select
            /\ (Returned("select_by_primary_and_cluster_keys") /\ result.arg = All) =>
                   result.value = select \o rest
            /\ Returned("delete_by_primary_keys") => result.value = delete
            /\ Returned("delete_by_primary_and_cluster_keys") =>
                   result.value = delete \o rest
            /\ (Returned("update_by_primary_keys") /\ result.arg = <<>>) =>
                   result.value = "UPDATE " \o Qualified(table_meta) \o " SET  WHERE "
            /\ (Returned("update_by_primary_and_cluster_keys") /\ result.arg = <<>>) =>
                   result.value =
                       "UPDATE " \o Qualified(table_meta) \o " SET  WHERE " \o rest

\* the by-primary-keys select of a schema with three columns and no key at
\* all is returned with nothing behind WHERE
C23_Witness ==
    /\ NoPrimaryKey
    /\ DOMAIN table_meta.cluster_keys = {}
    /\ Len(table_meta.columns) = 3
    /\ Returned("select_by_primary_keys")
    /\ result.arg = All
    /\ result.value = "SELECT * FROM test.user_account WHERE "
    /\ Contains(gen.create_table_sql, "PRIMARY KEY ()")

\* what a generator operation of the model gives for the call fn
Regenerated(self, fn, arg) ==
    LET g == artifacts(self)
    IN  CASE fn = "create_table_cql" -> create_table_cql(self)
          [] fn = "drop_table_cql" -> drop_table_cql(self)
          [] fn = "key_space" -> key_space(self)
          [] fn = "table_name" -> table_name(self)
          [] fn = "select_by_primary_keys" -> project(select_by_key(self), arg)
          [] fn = "select_by_primary_and_cluster_keys" ->
                 project(select_by_keys(self), arg)
          [] fn = "update_by_primary_keys" -> update_by_primary_keys(g, arg)
          [] fn = "update_by_primary_and_cluster_keys" ->
                 update_by_primary_and_cluster_keys(g, arg)
          [] fn = "delete_by_primary_keys" -> delete_by_key(self)
          [] fn = "delete_by_primary_and_cluster_keys" -> delete_by_keys(self)
          [] fn = "store_query" -> store_query(g)
          [] fn = "update_query" -> update_query(g)
          [] fn = "delete_query" -> delete_query(g)

\* C24: once the model is constructed no generator operation changes it:
\* name, keyspace, options, columns, static set and both key maps are the
\* same before and after every call and return, the artifacts stay the ones
\* generated from the model, and each call returns what the generator gives
\* for the model as it was constructed, whatever calls came before.
C24_ModelUnchangedByGenerators ==
    [][(pc \in {"generated", "returned"}) =>
           /\ table_meta' = table_meta
           /\ gen' = gen
           /\ gen' = artifacts(table_meta')
           /\ pc' = "returned" =>
                  result'.value = Regenerated(table_meta, result'.fn, result'.arg)]_vars

\* a call is served from a model with columns, keys of both kinds and a
\* static column, and the model is still the one the artifacts came from
C24_Witness ==
    /\ Returned("update_by_primary_and_cluster_keys")
    /\ result.arg = <<"first_name", "created">>
    /\ Len(table_meta.columns) = 3
    /\ Len(pk_values(table_meta)) = 2
    /\ Len(ck_values(table_meta)) = 2
    /\ table_meta.static_columns = <<"first_name">>
    /\ gen = artifacts(table_meta)

\* two fields were read, each with the same key attribute, and the two
\* attributes carry different integer positions
TwoKeysApart(attribute) ==
    /\ pc = "attribute"
    /\ Len(registered) = 2
    /\ \A i \in 1..2 :
           /\ registered[i].attribute = attribute
           /\ \E lit \in Given(registered[i], "position") : lit.kind = "Int"
    /\ PositionAsked(registered[1]) # PositionAsked(registered[2])

\* both of the two fields read are named, each once, in a list of keys and
\* in a statement generated from the model
BothKept(keys, stmts) ==
    /\ Len(keys) = 2
    /\ \A i \in 1..2 :
           /\ SeqContains(keys, FieldNames[i])
           /\ \A stmt \in stmts : Contains(stmt, FieldNames[i])

\* C25: two keys declared with different integer positions never collide:
\* two clustering keys, or two compound primary keys, declared at positions
\* p and q with p # q are both kept in the model and both appear in the
\* generated statements, for every non-negative position an annotation can
\* carry, those above 255 included.
C25_DistinctPositionsKept ==
    /\ TwoKeysApart("cluster_key") =>
           BothKept(ck_values(table_meta),
                    {KeyClause(create_table_cql(table_meta)),
                     WhereClause(select_by_keys(table_meta)),
                     WhereClause(delete_by_keys(table_meta))})
    /\ TwoKeysApart("compound_key") =>
           BothKept(pk_values(table_meta),
                    {KeyClause(create_table_cql(table_meta)),
                     WhereClause(select_by_key(table_meta)),
                     WhereClause(delete_by_key(table_meta))})

\* the names the key clause of a DDL lists, partition keys first
KeyClauseNames(ddl) ==
    LET listed == Behind(KeyClause(ddl), "PRIMARY KEY")
        flat == Replace(Replace(Replace(listed, "(", ""), ")", ""), " ", "")
    IN  SelectSeq(Items(flat, ","), LAMBDA name : name # "")

\* the names the column-definition list of a DDL defines
DefinedNames(ddl) ==
    LET entries == ColumnDefinitions(ddl)
    IN  {Before(entries[i] \o " ", " ") : i \in 1..Len(entries)}

\* the names of the column list of an INSERT statement
InsertedNames(stmt) ==
    LET listed == Items(Before(Behind(stmt, " ("), ") VALUES"), ",")
    IN  {listed[i] : i \in 1..Len(listed)}

\* C26: in every model reached through attribute ingestion every registered
\* primary key and clustering key is a declared column: each name in the
\* PRIMARY KEY clause of create_table_cql has a column definition in the
\* same statement and is in the column list of the insert statement.
C26_KeysAreDeclaredColumns ==
    (pc \in {"generated", "returned"}) =>
        /\ KeyNames(table_meta) \subseteq ColumnNames(table_meta)
        /\ \A i \in 1..Len(KeyClauseNames(gen.create_table_sql)) :
               LET name == KeyClauseNames(gen.create_table_sql)[i]
               IN  /\ name \in DefinedNames(gen.create_table_sql)
                   /\ name \in InsertedNames(gen.store_stmt)

\* the column a registration names
RegisteredName(registration) ==
    IF registration.map = "primary_keys" THEN registration.entry
    ELSE registration.entry[1]

\* no column was registered as a key more than once
RegisteredOnceEach ==
    \A i, j \in 1..Len(registered) :
        i # j => RegisteredName(registered[i]) # RegisteredName(registered[j])

\* no entry of a list is there twice
Distinct(names) ==
    \A i, j \in 1..Len(names) : i # j => names[i] # names[j]

\* no column is named twice among the keys of a model, in the key clause of
\* its DDL or in the WHERE clause of its by-keys statements
NoKeyTwice(self) ==
    /\ Distinct(pk_values(self) \o ck_values(self))
    /\ Distinct(KeyClauseNames(create_table_cql(self)))
    /\ Distinct(PlaceholderColumns(WhereClause(select_by_keys(self))))
    /\ Distinct(PlaceholderColumns(WhereClause(update_by_keys(self))))
    /\ Distinct(PlaceholderColumns(WhereClause(delete_by_keys(self))))

\* C27 as stated: in every reachable model no column name occurs more than
\* once among the primary keys and clustering keys together, so no column
\* is twice in the PRIMARY KEY clause or in a WHERE clause.
C27_NoColumnTwiceAmongKeys ==
    (pc = "register") => NoKeyTwice(table_meta)

\* C27: when every column is registered as a key at most once, no column
\* name occurs more than once among the primary keys and clustering keys
\* together, in the PRIMARY KEY clause or in the WHERE clause of a
\* generated statement; the registrations themselves do not exclude a
\* column registered in both maps or at two positions.
C27_KeysDistinctWhenRegisteredOnce ==
    (pc = "register" /\ RegisteredOnceEach) => NoKeyTwice(table_meta)

\* username registered as primary key and created as clustering key
C27_Witness ==
    /\ pc = "register"
    /\ Len(registered) = 2
    /\ RegisteredOnceEach
    /\ pk_values(table_meta) = <<"username">>
    /\ ck_values(table_meta) = <<"created">>
    /\ KeyClauseNames(create_table_cql(table_meta)) = <<"username", "created">>
    /\ PlaceholderColumns(WhereClause(select_by_keys(table_meta))) =
           <<"username", "created">>

\* the number of primary keys and of clustering keys a schema holds
PrimaryKeyCount(self) == Cardinality(DOMAIN self.primary_keys)
ClusterKeyCount(self) == Cardinality(DOMAIN self.cluster_keys)

\* C28: for a schema with n registered primary keys and m registered
\* clustering keys the number of ? placeholders is n in
\* select_by_primary_keys and delete_by_primary_keys, n+m in
\* select_by_primary_and_cluster_keys and
\* delete_by_primary_and_cluster_keys, k+n in update_by_primary_keys(L) and
\* k+n+m in update_by_primary_and_cluster_keys(L) for a list L of k columns,
\* for every projection.
C28_PlaceholderCounts ==
    (pc \in {"generated", "returned"}) =>
        LET n == PrimaryKeyCount(table_meta)
            m == ClusterKeyCount(table_meta)
        IN  /\ \A projection \in Projections :
                   /\ Placeholders(select_by_primary_keys(gen, projection)) = n
                   /\ Placeholders(select_by_primary_and_cluster_keys(gen, projection))
                          = n + m
            /\ Placeholders(delete_by_primary_keys(gen)) = n
            /\ Placeholders(delete_by_primary_and_cluster_keys(gen)) = n + m
            /\ \A columns \in ColumnLists :
                   /\ Placeholders(update_by_primary_keys(gen, columns))
                          = Len(columns) + n
                   /\ Placeholders(update_by_primary_and_cluster_keys(gen, columns))
                          = Len(columns) + n + m
            /\ Returned("select_by_primary_keys") => Placeholders(result.value) = n
            /\ Returned("select_by_primary_and_cluster_keys") =>
                   Placeholders(result.value) = n + m
            /\ Returned("delete_by_primary_keys") => Placeholders(result.value) = n
            /\ Returned("delete_by_primary_and_cluster_keys") =>
                   Placeholders(result.value) = n + m
            /\ Returned("update_by_primary_keys") =>
                   Placeholders(result.value) = Len(result.arg) + n
            /\ Returned("update_by_primary_and_cluster_keys") =>
                   Placeholders(result.value) = Len(result.arg) + n + m

\* the by-keys update of two columns on a schema with two primary keys and
\* two clustering keys has six placeholders
C28_Witness ==
    /\ Returned("update_by_primary_and_cluster_keys")
    /\ result.arg = <<"first_name", "created">>
    /\ PrimaryKeyCount(table_meta) = 2
    /\ ClusterKeyCount(table_meta) = 2
    /\ Placeholders(result.value) = 6

====
